---- MODULE Spec2Model ----
(***************************************************************************)
(* LUIS authoring client (src/luis.ts) and the sample run that drives it.  *)
(*                                                                         *)
(* Three parts are modelled:                                               *)
(*   - getAllPages / findInAllPages (the paged scan and the name lookup)   *)
(*     together with the find-then-add step of the sample run;             *)
(*   - trainApplicationVersionAndWaitForCompletion (the training poller);  *)
(*   - main, the sample run from the first find to "We are done!".         *)
(* Every awaited remote call is two steps: the request being issued and    *)
(* its response being received; `inflight` counts requests awaiting their  *)
(* response.                                                               *)
(***************************************************************************)
EXTENDS Integers, Sequences, FiniteSets, TLC

VARIABLES
    pc,             \* position of the single thread of control
    inflight,       \* remote requests issued and not yet answered
    \* ---- remote service: the collection that is listed and added to
    remote,         \* sequence of items [id, name], in the service's list order
    \* ---- getAllPages / findInAllPages / sample run
    take,           \* page size
    name,           \* the name looked for
    skip,           \* getAllPages: current offset
    results,        \* getAllPages: accumulator
    page,           \* getAllPages: last fetched page
    appId,          \* sample run: the resolved identifier
    fetches,        \* pagedFunction calls issued by the current scan
    creates,        \* creation calls issued over all runs
    run,            \* number of the current run of the find-then-add step
    resolved,       \* identifiers resolved by the completed runs, in order
    \* ---- trainApplicationVersionAndWaitForCompletion
    initialStatus,  \* <<>> before the train response, <<statusId>> after
    currentStatus,  \* last fetched status list (sequence of statusIds)
    inProgress,     \* loop flag
    result,         \* TrainingResult
    trains,         \* training-start calls issued
    polls,          \* status-poll calls issued
    delays,         \* durations (ms) of the delays started, in order
    responses,      \* per poll response received: did it contain InProgress
    lastResponse,   \* the status list the service sent last
    \* ---- the sample run as a whole
    kind,           \* resource kind main is resolving or listing (index of Kinds)
    modelId,        \* main: the identifier of the model being resolved
    console,        \* what main has logged of errors and of its completion
    trace           \* events of the run in order: calls, responses, delays

scanVars  == <<remote, take, name, skip, results, page, appId, fetches, creates,
               run, resolved>>
trainVars == <<initialStatus, currentStatus, inProgress, result, trains, polls,
               delays, responses, lastResponse>>
mainVars  == <<kind, modelId, console>>
vars      == <<pc, inflight, scanVars, trainVars, mainVars, trace>>

----------------------------------------------------------------------------
(* Bounds of the model *)

MaxItems  == 4      \* longest enumerated remote collection
MaxTake   == 3      \* largest enumerated page size besides the client's own
MaxRuns   == 2      \* runs of the find-then-add step
MaxModels == 2      \* longest status list of a poll response
MaxPolls  == 3      \* poll responses that may still contain InProgress

(* Program constants *)

Take      == 100    \* const take = 100
DelayMs   == 500    \* this.delay(500)
Undefined == -1     \* JavaScript undefined (a falsy value that is no identifier)

TrainingStatus ==
    [Success |-> 0, Fail |-> 1, UpToDate |-> 2, InProgress |-> 3, Queued |-> 9]

----------------------------------------------------------------------------
(* Values *)

Names == {"Test", "test", "Testing"}

Min(a, b) == IF a < b THEN a ELSE b

\* An item of the listed collection: identifiers are non-empty tokens,
\* modelled as the positive integers.
Item(i, n) == [id |-> i, name |-> n]

\* The collection whose items, in list order, carry the names of f.
CollectionOf(f) == [i \in 1..Len(f) |-> Item(i, f[i])]

SmallCollections ==
    { CollectionOf(f) : f \in UNION { [1..n -> Names] : n \in 0..MaxItems } }

\* Collections around the client's own page size: Take-1, Take, Take+1 and
\* 2*Take items, the last of which carries any of the names.
BigCollections ==
    { CollectionOf([i \in 1..m |-> IF i = m THEN n ELSE "Testing"]) :
        m \in {Take - 1, Take, Take + 1, 2 * Take}, n \in Names }

PageSizes == 1..MaxTake

\* A fresh identifier handed out by the service on creation.
FreshId(coll) ==
    IF coll = <<>> THEN 1
    ELSE 1 + CHOOSE m \in {coll[i].id : i \in 1..Len(coll)} :
                 \A i \in 1..Len(coll) : coll[i].id <= m

\* The collection with item it stored at list position p.
InsertAt(coll, p, it) ==
    SubSeq(coll, 1, p - 1) \o <<it>> \o SubSeq(coll, p, Len(coll))

----------------------------------------------------------------------------
(* Requests and events *)

\* The resource kinds of the sample run, in the order main resolves them, with
\* the name main looks for and the methods it calls for each.
Kinds == 1..6

KindNames ==
    <<"Test", "Search", "Object", "Location", "SearchType", "datetimeV2">>

FindOps ==
    <<"findApplication", "findVersionIntent", "findVersionEntity",
      "findVersionHierarchicalEntity", "findVersionClosedListEntity",
      "findVersionPrebuiltEntity">>

CreateOps ==
    <<"addApplication", "createIntent", "createEntity",
      "createHierarchicalEntity", "createClosedListEntity",
      "addPrebuiltEntityList">>

ListOps ==
    <<"getApplicationsList", "getVersionIntentList", "getVersionEntityList",
      "getVersionHierarchicalEntityList", "getVersionClosedListList",
      "getVersionPrebuiltEntityList">>

\* An event of the run. ev is "call" (a remote request is issued), "return"
\* (its response arrives), "throw" (it fails), "found" (a find returns) or
\* "delay" (a timer is started); arg is the application id a request carries,
\* the id a find returns, or the milliseconds of a delay.
Ev(e, o, a) == [ev |-> e, op |-> o, arg |-> a]

\* variant: the continuation runs without awaiting the response
NotAwaited(n) == n

\* await: the response of the pending request has arrived
Answered(n) == n - 1

\* request(): axios issues one request
Issued(n) == n + 1

----------------------------------------------------------------------------
(* getAllPages, findInAllPages *)

\* The service's paged list operation: items skip .. skip+take-1.
PagedFunction(coll, s, t) == SubSeq(coll, s + 1, Min(s + t, Len(coll)))

\* variant: results = page (the accumulator is overwritten)
ConcatKeepsPageOnly(res, pg) == pg

\* results.concat(page)
Concat(res, pg) == res \o pg

\* variant: while (page.length > 0)
PageIsNonEmpty(pg, t) == Len(pg) > 0

\* variant: while (page.length > take)
PageIsOverfull(pg, t) == Len(pg) > t

\* while (page.length === take)
PageIsFull(pg, t) == Len(pg) = t

\* String.prototype.toLowerCase on the names of the model
Lower(n) == IF n = "Test" THEN "test" ELSE IF n = "Testing" THEN "testing" ELSE n

\* variant: app.name.toLowerCase() === name.toLowerCase()
NameEqualsIgnoringCase(a, b) == Lower(a) = Lower(b)

\* app => app.name === name
NameEquals(a, b) == a = b

\* items.filter(filter)
Filter(its, n) == SelectSeq(its, LAMBDA it : NameEquals(it.name, n))

\* variant: if (appId) instead of if (!appId)
Truthy(v) == v # Undefined

\* !id
Falsy(v) == v = Undefined

\* filteredItems && filteredItems[0] && filteredItems[0].id
\* (an array and an item object are truthy; index 0 of an empty array reads
\* undefined, which is what the && chain then yields)
FirstId(filtered) ==
    IF Len(filtered) = 0 THEN Undefined ELSE filtered[1].id

----------------------------------------------------------------------------
(* trainApplicationVersionAndWaitForCompletion *)

\* Status codes the training-start call may answer: the enum's codes, the
\* codes between them that the enum does not name, and a missing statusId.
InitialStatusIds == (TrainingStatus.Success..TrainingStatus.Queued) \cup {Undefined}

\* Status codes of the entries of a poll response.
EntryStatusIds ==
    { TrainingStatus.Success, TrainingStatus.Fail, TrainingStatus.UpToDate,
      TrainingStatus.InProgress, TrainingStatus.Queued }

\* The status lists a poll may answer (one statusId per model).
StatusLists == UNION { [1..n -> EntryStatusIds] : n \in 0..MaxModels }

\* Array.prototype.some / every with s => s.details.statusId === st
Some(list, st) == \E i \in 1..Len(list) : list[i] = st

Every(list, st) == \A i \in 1..Len(list) : list[i] = st

\* variant: initialStatus.statusId === TrainingStatus.Success
ImmediateSuccess(s) == s = TrainingStatus.Success

\* initialStatus.statusId === TrainingStatus.UpToDate
ImmediateUpToDate(s) == s = TrainingStatus.UpToDate

\* variant: Queued or InProgress enters the polling loop
ImmediateQueuedOrInProgress(s) ==
    s \in {TrainingStatus.Queued, TrainingStatus.InProgress}

\* initialStatus.statusId === TrainingStatus.Queued
ImmediateQueued(s) == s = TrainingStatus.Queued

\* variant: currentStatus.every(... InProgress)
EveryInProgress(list) == Every(list, TrainingStatus.InProgress)

\* currentStatus.some(s => s.details.statusId === TrainingStatus.InProgress)
AnyInProgress(list) == Some(list, TrainingStatus.InProgress)

\* variant: currentStatus.every(... Fail)
EveryFail(list) == Every(list, TrainingStatus.Fail)

\* currentStatus.some(s => s.details.statusId === TrainingStatus.Fail)
AnyFail(list) == Some(list, TrainingStatus.Fail)

\* variant: a non-empty list all of whose entries are UpToDate
SomeAndEveryUpToDate(list) == list # <<>> /\ Every(list, TrainingStatus.UpToDate)

\* variant: currentStatus.some(... UpToDate)
AnyUpToDate(list) == Some(list, TrainingStatus.UpToDate)

\* currentStatus.every(s => s.details.statusId === TrainingStatus.UpToDate)
EveryUpToDate(list) == Every(list, TrainingStatus.UpToDate)

\* TrainingResult; status is <<>> when the field is absent, <<payload>> else
TrainingResult(ok, st, payload) ==
    [success |-> ok, statusId |-> st, status |-> payload]

\* let result = { success: false, statusId: TrainingStatus.Fail }
NoResult == TrainingResult(FALSE, TrainingStatus.Fail, <<>>)

\* the classification after the polling loop
ClassifyStatus(list) ==
    IF AnyFail(list)
      THEN TrainingResult(FALSE, TrainingStatus.Fail, <<list>>)
    ELSE IF EveryUpToDate(list)
      THEN TrainingResult(TRUE, TrainingStatus.UpToDate, <<>>)
    ELSE TrainingResult(TRUE, TrainingStatus.Success, <<>>)

----------------------------------------------------------------------------
(* Initial states *)

InitTrainVars ==
    /\ initialStatus = <<>>
    /\ currentStatus = <<>>
    /\ inProgress = FALSE
    /\ result = NoResult
    /\ trains = 0
    /\ polls = 0
    /\ delays = <<>>
    /\ responses = <<>>
    /\ lastResponse = <<>>

InitScanLocals ==
    /\ skip = 0
    /\ results = <<>>
    /\ page = <<>>
    /\ appId = Undefined
    /\ fetches = 0
    /\ creates = 0
    /\ run = 1
    /\ resolved = <<>>

InitMainVars ==
    /\ kind = 1
    /\ modelId = Undefined
    /\ console = <<>>
    /\ trace = <<>>

Init ==
    /\ pc = "main"
    /\ InitMainVars
    /\ inflight = 0
    /\ \/ take \in PageSizes /\ remote \in SmallCollections
       \/ take = Take /\ remote \in SmallCollections \cup BigCollections
    /\ name \in Names
    /\ InitScanLocals
    /\ InitTrainVars

----------------------------------------------------------------------------
(* The find-then-add step of the sample run *)

\* main: let appId = await luis.apps.findApplication(name), entering getAllPages
FindApplication ==
    /\ pc = "main"
    /\ kind = 1
    /\ skip' = 0
    /\ results' = <<>>
    /\ page' = <<>>
    /\ fetches' = 0
    /\ pc' = "fetch"
    /\ UNCHANGED <<inflight, remote, take, name, appId, creates, run, resolved>>
    /\ UNCHANGED trainVars
    /\ UNCHANGED trace
    /\ UNCHANGED mainVars

\* getAllPages: pagedFunction(skip, take) is called
PagedFunctionCall ==
    /\ pc = "fetch"
    /\ inflight' = Issued(inflight)
    /\ fetches' = fetches + 1
    /\ pc' = "awaitPage"
    /\ UNCHANGED <<remote, take, name, skip, results, page, appId, creates, run,
                   resolved>>
    /\ UNCHANGED trainVars
    /\ trace' = Append(trace, Ev("call", FindOps[kind], appId))
    /\ UNCHANGED mainVars

\* getAllPages: the page arrives; concat, advance, test the loop condition
PagedFunctionReturn ==
    /\ pc = "awaitPage"
    /\ inflight' = Answered(inflight)
    /\ page' = PagedFunction(remote, skip, take)
    /\ results' = Concat(results, page')
    /\ skip' = Len(results')
    /\ pc' = IF PageIsFull(page', take) THEN "fetch" ELSE "scanned"
    /\ UNCHANGED <<remote, take, name, appId, fetches, creates, run, resolved>>
    /\ UNCHANGED trainVars
    /\ trace' = Append(trace, Ev("return", FindOps[kind], appId))
    /\ UNCHANGED mainVars

\* findInAllPages: filter the scanned items and return the first match's id,
\* which main assigns to appId
FindInAllPagesReturn ==
    /\ pc = "scanned"
    /\ kind = 1
    /\ appId' = FirstId(Filter(results, name))
    /\ pc' = "found"
    /\ UNCHANGED <<inflight, remote, take, name, skip, results, page, fetches,
                   creates, run, resolved>>
    /\ UNCHANGED trainVars
    /\ trace' = Append(trace, Ev("found", FindOps[kind], appId'))
    /\ UNCHANGED mainVars

\* main: if (!appId) { ... addApplication ... } else the found id is used
IfNotAppId ==
    /\ pc = "found"
    /\ kind = 1
    /\ IF Falsy(appId)
         THEN pc' = "add" /\ UNCHANGED resolved
         ELSE pc' = "resolved" /\ resolved' = Append(resolved, appId)
    /\ UNCHANGED <<inflight, remote, take, name, skip, results, page, appId,
                   fetches, creates, run>>
    /\ UNCHANGED trainVars
    /\ UNCHANGED trace
    /\ UNCHANGED mainVars

\* main: appId = await luis.apps.addApplication(name, ...): the request
AddApplicationCall ==
    /\ pc = "add"
    /\ kind = 1
    /\ inflight' = Issued(inflight)
    /\ creates' = creates + 1
    /\ pc' = "awaitAdd"
    /\ UNCHANGED <<remote, take, name, skip, results, page, appId, fetches, run,
                   resolved>>
    /\ UNCHANGED trainVars
    /\ trace' = Append(trace, Ev("call", CreateOps[kind], appId))
    /\ UNCHANGED mainVars

\* the service stores the new item somewhere in its list and answers its id
AddApplicationReturn ==
    /\ pc = "awaitAdd"
    /\ kind = 1
    /\ inflight' = Answered(inflight)
    /\ \E p \in 1..(Len(remote) + 1) :
          remote' = InsertAt(remote, p, Item(FreshId(remote), name))
    /\ appId' = FreshId(remote)
    /\ resolved' = Append(resolved, appId')
    /\ pc' = "resolved"
    /\ UNCHANGED <<take, name, skip, results, page, fetches, creates, run>>
    /\ UNCHANGED trainVars
    /\ trace' = Append(trace, Ev("return", CreateOps[kind], appId))
    /\ UNCHANGED mainVars

\* the sample is run again: main() starts over, holding no state of the last run
RunAgain ==
    /\ pc = "resolved"
    /\ run < MaxRuns
    /\ run' = run + 1
    /\ appId' = Undefined
    /\ pc' = "main"
    /\ UNCHANGED <<inflight, remote, take, name, skip, results, page, fetches,
                   creates, resolved>>
    /\ UNCHANGED trainVars
    /\ UNCHANGED trace
    /\ UNCHANGED mainVars

Next ==
    \/ FindApplication
    \/ PagedFunctionCall
    \/ PagedFunctionReturn
    \/ FindInAllPagesReturn
    \/ IfNotAppId
    \/ AddApplicationCall
    \/ AddApplicationReturn
    \/ RunAgain

Spec == Init /\ [][Next]_vars

----------------------------------------------------------------------------
(* getAllPages on its own, for its termination *)

\* A collection of m items (their names play no part in the scan).
UniformCollection(m) == CollectionOf([i \in 1..m |-> "Test"])

InitPages ==
    /\ pc = "main"
    /\ inflight = 0
    /\ InitMainVars
    /\ name = "Test"
    /\ \/ /\ take \in PageSizes
          /\ remote \in { UniformCollection(m) : m \in 0..(2 * MaxItems) }
       \/ /\ take = Take
          /\ remote \in { UniformCollection(m) :
                            m \in {0, Take - 1, Take, Take + 1, 2 * Take} }
    /\ InitScanLocals
    /\ InitTrainVars

\* one call of findApplication up to the return of getAllPages
NextPages ==
    \/ FindApplication
    \/ PagedFunctionCall
    \/ PagedFunctionReturn

\* The event loop runs every continuation that is ready and the service
\* answers every request.
SpecPagesFair == InitPages /\ [][NextPages]_vars /\ WF_vars(NextPages)

----------------------------------------------------------------------------
(* The training poller *)

InitTrain ==
    /\ pc = "train"
    /\ InitMainVars
    /\ inflight = 0
    /\ take = Take
    /\ remote = <<>>
    /\ name = "Test"
    /\ InitScanLocals
    /\ InitTrainVars

\* result is initialised and trainApplicationVersion is called
TrainApplicationVersionCall ==
    /\ pc = "train"
    /\ result' = NoResult
    /\ trains' = trains + 1
    /\ inflight' = Issued(inflight)
    /\ pc' = "awaitTrain"
    /\ UNCHANGED <<initialStatus, currentStatus, inProgress, polls, delays,
                   responses, lastResponse>>
    /\ UNCHANGED scanVars
    /\ trace' = Append(trace, Ev("call", "trainApplicationVersion", appId))
    /\ UNCHANGED mainVars

\* the immediate status arrives and is inspected
TrainApplicationVersionReturn ==
    /\ pc = "awaitTrain"
    /\ inflight' = Answered(inflight)
    /\ \E s \in InitialStatusIds :
          /\ initialStatus' = <<s>>
          /\ IF ImmediateUpToDate(s)
               THEN /\ result' = TrainingResult(TRUE, TrainingStatus.UpToDate, <<>>)
                    /\ pc' = "returned"
                    /\ UNCHANGED inProgress
             ELSE IF ImmediateQueued(s)
               THEN /\ inProgress' = TRUE
                    /\ pc' = "delay"
                    /\ UNCHANGED result
             ELSE /\ pc' = "returned"
                  /\ UNCHANGED <<result, inProgress>>
    /\ UNCHANGED <<currentStatus, trains, polls, delays, responses, lastResponse>>
    /\ UNCHANGED scanVars
    /\ trace' = Append(trace, Ev("return", "trainApplicationVersion", appId))
    /\ UNCHANGED mainVars

\* delay(ms): a timer of ms milliseconds is started; nothing else is pending
Delay(ms) ==
    /\ delays' = Append(delays, ms)
    /\ pc' = "delaying"
    /\ UNCHANGED <<inflight, initialStatus, currentStatus, inProgress, result,
                   trains, polls, responses, lastResponse>>
    /\ UNCHANGED scanVars
    /\ trace' = Append(trace, Ev("delay", "delay", ms))
    /\ UNCHANGED mainVars

\* variant: the delay grows with every iteration
LoopDelayBackoff(n) == DelayMs * n

\* the delay before the n-th status poll: this.delay(500), whatever n is
LoopDelay(n) == DelayMs

\* do { await this.delay(500)
DelayStart ==
    /\ pc = "delay"
    /\ Delay(LoopDelay(polls + 1))

\* the timer has fired: getVersionTrainingStatus is called
GetVersionTrainingStatusCall ==
    /\ pc = "delaying"
    /\ polls' = polls + 1
    /\ inflight' = Issued(inflight)
    /\ pc' = "awaitStatus"
    /\ UNCHANGED <<initialStatus, currentStatus, inProgress, result, trains,
                   delays, responses, lastResponse>>
    /\ UNCHANGED scanVars
    /\ trace' = Append(trace, Ev("call", "getVersionTrainingStatus", appId))
    /\ UNCHANGED mainVars

\* the status list arrives: } while (inProgress), then the classification.
\* The service may keep a model in progress for at most MaxPolls responses.
GetVersionTrainingStatusReturn ==
    /\ pc = "awaitStatus"
    /\ inflight' = Answered(inflight)
    /\ \E list \in StatusLists :
          /\ polls < MaxPolls \/ ~ Some(list, TrainingStatus.InProgress)
          /\ lastResponse' = list
          /\ responses' = Append(responses, Some(list, TrainingStatus.InProgress))
          /\ currentStatus' = list
          /\ inProgress' = AnyInProgress(list)
          /\ IF inProgress'
               THEN pc' = "delay" /\ UNCHANGED result
               ELSE pc' = "returned" /\ result' = ClassifyStatus(list)
    /\ UNCHANGED <<initialStatus, trains, polls, delays>>
    /\ UNCHANGED scanVars
    /\ trace' = Append(trace, Ev("return", "getVersionTrainingStatus", appId))
    /\ UNCHANGED mainVars

NextTrain ==
    \/ TrainApplicationVersionCall
    \/ TrainApplicationVersionReturn
    \/ DelayStart
    \/ GetVersionTrainingStatusCall
    \/ GetVersionTrainingStatusReturn

SpecTrain == InitTrain /\ [][NextTrain]_vars

\* The event loop runs every continuation that is ready, the service answers
\* every request and every timer fires.
SpecTrainFair == SpecTrain /\ WF_vars(NextTrain)

----------------------------------------------------------------------------
(* main: the whole sample run *)

\* The collections the service may hold for resource kind k in a whole run:
\* none, only the resource looked for, or only a resource of another name.
KindCollections(k) ==
    { <<>>, <<Item(1, KindNames[k])>>, <<Item(1, "test")>> }

\* Positions at which main awaits the response of a remote request.
AwaitPcs ==
    { "awaitPage", "awaitAdd", "awaitInfo", "awaitLabels", "awaitList",
      "awaitTrain", "awaitStatus", "awaitPublish", "awaitReview", "awaitDelete" }

\* variant: the handler deletes the application before giving up
AfterCatchRollsBack == "delete"

\* catch (err) { console.log(err); } falls through to the end of main
AfterCatch == "done"

\* variant: the application is published whatever the training result
PublishAlways(r) == TRUE

\* if (trainingResult.success)
ShouldPublish(r) == r.success

InitMain ==
    /\ pc = "main"
    /\ inflight = 0
    /\ InitMainVars
    /\ take = Take
    /\ name = KindNames[1]
    /\ remote \in KindCollections(1)
    /\ InitScanLocals
    /\ InitTrainVars

\* A request of main itself (not of getAllPages or of the poller) is issued.
MainCall(from, op, to) ==
    /\ pc = from
    /\ inflight' = Issued(inflight)
    /\ trace' = Append(trace, Ev("call", op, appId))
    /\ pc' = to

\* Its response arrives.
MainReturn(from, op) ==
    /\ pc = from
    /\ inflight' = Answered(inflight)
    /\ trace' = Append(trace, Ev("return", op, appId))

\* const appInfo = await luis.apps.getApplicationInfo(appId)
GetApplicationInfoCall ==
    /\ kind = 1
    /\ MainCall("resolved", "getApplicationInfo", "awaitInfo")
    /\ UNCHANGED <<scanVars, trainVars, mainVars>>

\* versionId = appInfo.activeVersion; main turns to the intents
GetApplicationInfoReturn ==
    /\ MainReturn("awaitInfo", "getApplicationInfo")
    /\ kind' = 2
    /\ name' = KindNames[2]
    /\ pc' = "main"
    /\ UNCHANGED <<remote, take, skip, results, page, appId, fetches, creates,
                   run, resolved>>
    /\ UNCHANGED <<modelId, console>>
    /\ UNCHANGED trainVars

\* luis.models.findVersion*(appId, versionId, name), entering getAllPages on
\* whatever collection of that kind the service holds
FindVersionModel ==
    /\ pc = "main"
    /\ kind > 1
    /\ remote' \in KindCollections(kind)
    /\ skip' = 0
    /\ results' = <<>>
    /\ page' = <<>>
    /\ fetches' = 0
    /\ pc' = "fetch"
    /\ UNCHANGED <<inflight, take, name, appId, creates, run, resolved>>
    /\ UNCHANGED <<trainVars, mainVars, trace>>

\* findInAllPages returns to findVersion*, whose result main assigns
FindVersionModelReturn ==
    /\ pc = "scanned"
    /\ kind > 1
    /\ modelId' = FirstId(Filter(results, name))
    /\ trace' = Append(trace, Ev("found", FindOps[kind], modelId'))
    /\ pc' = "found"
    /\ UNCHANGED <<inflight, kind, console>>
    /\ UNCHANGED <<scanVars, trainVars>>

\* if (!searchIntentId) ... if (!prebuiltEntityId)
IfNotModelId ==
    /\ pc = "found"
    /\ kind > 1
    /\ pc' = IF Falsy(modelId) THEN "add" ELSE "resolved"
    /\ UNCHANGED <<inflight, scanVars, trainVars, mainVars, trace>>

\* luis.models.create*(appId, versionId, name, ...) / addPrebuiltEntityList
CreateModelCall ==
    /\ kind > 1
    /\ MainCall("add", CreateOps[kind], "awaitAdd")
    /\ creates' = creates + 1
    /\ UNCHANGED <<remote, take, name, skip, results, page, appId, fetches, run,
                   resolved>>
    /\ UNCHANGED <<trainVars, mainVars>>

\* the service stores the model and answers; main assigns the answer to the
\* model's id, except for the prebuilt entities, whose id is a const
CreateModelReturn ==
    /\ kind > 1
    /\ MainReturn("awaitAdd", CreateOps[kind])
    /\ \E p \in 1..(Len(remote) + 1) :
          remote' = InsertAt(remote, p, Item(FreshId(remote), name))
    /\ modelId' = IF kind = 6 THEN modelId ELSE FreshId(remote)
    /\ pc' = "resolved"
    /\ UNCHANGED <<take, name, skip, results, page, appId, fetches, creates, run,
                   resolved>>
    /\ UNCHANGED <<kind, console>>
    /\ UNCHANGED trainVars

\* main turns to the next kind of model
NextModel ==
    /\ pc = "resolved"
    /\ kind > 1
    /\ kind < 6
    /\ kind' = kind + 1
    /\ name' = KindNames[kind + 1]
    /\ modelId' = Undefined
    /\ pc' = "main"
    /\ UNCHANGED <<remote, take, skip, results, page, appId, fetches, creates,
                   run, resolved>>
    /\ UNCHANGED <<inflight, console, trace>>
    /\ UNCHANGED trainVars

\* luis.utterances.batchAddLabels(appId, versionId, [...]); the scan's locals
\* are gone and the collections play no further part
BatchAddLabelsCall ==
    /\ kind = 6
    /\ MainCall("resolved", "batchAddLabels", "awaitLabels")
    /\ remote' = <<>>
    /\ skip' = 0
    /\ results' = <<>>
    /\ page' = <<>>
    /\ fetches' = 0
    /\ UNCHANGED <<take, name, appId, creates, run, resolved>>
    /\ UNCHANGED <<trainVars, mainVars>>

BatchAddLabelsReturn ==
    /\ MainReturn("awaitLabels", "batchAddLabels")
    /\ kind' = 2
    /\ pc' = "list"
    /\ UNCHANGED <<modelId, console>>
    /\ UNCHANGED <<scanVars, trainVars>>

\* luis.models.getVersion*List(appId, versionId): intents, entities,
\* hierarchical entities, closed lists, prebuilt entities
GetVersionListCall ==
    /\ MainCall("list", ListOps[kind], "awaitList")
    /\ UNCHANGED <<scanVars, trainVars, mainVars>>

GetVersionListReturn ==
    /\ MainReturn("awaitList", ListOps[kind])
    /\ IF kind < 6
         THEN kind' = kind + 1 /\ pc' = "list"
         ELSE kind' = kind /\ pc' = "train"
    /\ UNCHANGED <<modelId, console>>
    /\ UNCHANGED <<scanVars, trainVars>>

\* if (trainingResult.success) { publish } else { "Training failed" }
IfTrainingResultSuccess ==
    /\ pc = "returned"
    /\ IF ShouldPublish(result)
         THEN pc' = "publish" /\ UNCHANGED console
         ELSE pc' = "review" /\ console' = Append(console, "Training failed")
    /\ UNCHANGED <<inflight, kind, modelId, trace>>
    /\ UNCHANGED <<scanVars, trainVars>>

\* luis.apps.publishApplication(appId, versionId, false, "northeurope")
PublishApplicationCall ==
    /\ MainCall("publish", "publishApplication", "awaitPublish")
    /\ UNCHANGED <<scanVars, trainVars, mainVars>>

PublishApplicationReturn ==
    /\ MainReturn("awaitPublish", "publishApplication")
    /\ console' = Append(console, "Done!")
    /\ pc' = "review"
    /\ UNCHANGED <<kind, modelId>>
    /\ UNCHANGED <<scanVars, trainVars>>

\* luis.utterances.reviewLabeledExamples(appId, versionId)
ReviewLabeledExamplesCall ==
    /\ MainCall("review", "reviewLabeledExamples", "awaitReview")
    /\ UNCHANGED <<scanVars, trainVars, mainVars>>

ReviewLabeledExamplesReturn ==
    /\ MainReturn("awaitReview", "reviewLabeledExamples")
    /\ pc' = "delete"
    /\ UNCHANGED <<scanVars, trainVars, mainVars>>

\* luis.apps.deleteApplication(appId)
DeleteApplicationCall ==
    /\ MainCall("delete", "deleteApplication", "awaitDelete")
    /\ UNCHANGED <<scanVars, trainVars, mainVars>>

\* the try block ends; console.log("We are done!")
DeleteApplicationReturn ==
    /\ MainReturn("awaitDelete", "deleteApplication")
    /\ console' = Append(console, "We are done!")
    /\ pc' = "done"
    /\ UNCHANGED <<kind, modelId>>
    /\ UNCHANGED <<scanVars, trainVars>>

\* The pending request fails: the rejection propagates through every await
\* to main's catch, which logs it; then console.log("We are done!")
RemoteCallFails ==
    /\ pc \in AwaitPcs
    /\ inflight' = Answered(inflight)
    /\ trace' = Append(trace, Ev("throw", trace[Len(trace)].op, appId))
    /\ console' = console \o <<"error", "We are done!">>
    /\ pc' = AfterCatch
    /\ UNCHANGED <<kind, modelId>>
    /\ UNCHANGED <<scanVars, trainVars>>

NextMain ==
    \/ FindApplication
    \/ PagedFunctionCall
    \/ PagedFunctionReturn
    \/ FindInAllPagesReturn
    \/ IfNotAppId
    \/ AddApplicationCall
    \/ AddApplicationReturn
    \/ GetApplicationInfoCall
    \/ GetApplicationInfoReturn
    \/ FindVersionModel
    \/ FindVersionModelReturn
    \/ IfNotModelId
    \/ CreateModelCall
    \/ CreateModelReturn
    \/ NextModel
    \/ BatchAddLabelsCall
    \/ BatchAddLabelsReturn
    \/ GetVersionListCall
    \/ GetVersionListReturn
    \/ TrainApplicationVersionCall
    \/ TrainApplicationVersionReturn
    \/ DelayStart
    \/ GetVersionTrainingStatusCall
    \/ GetVersionTrainingStatusReturn
    \/ IfTrainingResultSuccess
    \/ PublishApplicationCall
    \/ PublishApplicationReturn
    \/ ReviewLabeledExamplesCall
    \/ ReviewLabeledExamplesReturn
    \/ DeleteApplicationCall
    \/ DeleteApplicationReturn
    \/ RemoteCallFails

SpecMain == InitMain /\ [][NextMain]_vars

----------------------------------------------------------------------------
(* Properties of getAllPages and findInAllPages *)

CeilDiv(a, b) == (a + b - 1) \div b

\* Number of times item it occurs in sequence s.
Occurrences(s, it) == Cardinality({ j \in 1..Len(s) : s[j] = it })

\* C1: when getAllPages returns, its result holds exactly the M items of the
\* remote collection: every item once, none missing, none duplicated.
C1_AllItemsExactlyOnce ==
    pc = "scanned" =>
        /\ Len(results) = Len(remote)
        /\ \A i \in 1..Len(remote) : Occurrences(results, remote[i]) = 1

\* a scan over several pages of a collection that is a multiple of the page size
C1_Witness ==
    /\ pc = "scanned"
    /\ fetches >= 3
    /\ Len(remote) = 2 * take
    /\ Len(results) = Len(remote)

ExpectedRequests(M, N) ==
    IF M % N = 0 THEN CeilDiv(M + 1, N) ELSE CeilDiv(M, N)

\* C2: getAllPages makes ceil((M+1)/N) fetch calls when M is a multiple of the
\* page size N (one call for M = 0, a second, empty page for M = N), and
\* ceil(M/N) otherwise; it never makes more on the way.
C2_RequestCount ==
    /\ pc = "scanned" => fetches = ExpectedRequests(Len(remote), take)
    /\ pc \in {"fetch", "awaitPage"} =>
          fetches <= ExpectedRequests(Len(remote), take)

\* M = N: the full page is followed by a second request that returns nothing
C2_Witness ==
    /\ pc = "scanned"
    /\ Len(remote) = take
    /\ fetches = 2
    /\ page = <<>>

\* C3: against a collection that only this client's creation calls change,
\* every run of find-then-add resolves the same identifier, and only the
\* first run can issue a creation call: at most one is issued over all runs.
C3_FindOrCreateIdempotent ==
    /\ creates <= 1
    /\ run >= 2 => pc \notin {"add", "awaitAdd"}
    /\ \A i, j \in 1..Len(resolved) : resolved[i] = resolved[j]

\* the first run created the resource, a later run found it
C3_Witness ==
    /\ pc = "resolved"
    /\ run >= 2
    /\ Len(resolved) = run
    /\ creates = 1

\* Positions of the items of coll named exactly n.
Named(coll, n) == { i \in 1..Len(coll) : coll[i].name = n }

Least(S) == CHOOSE m \in S : \A k \in S : m <= k

\* C4: findInAllPages with the name filter returns the id of the first item,
\* in list order, named exactly as requested; it returns a falsy value exactly
\* when no item carries that name; the id of an item whose name differs (in
\* case only, or by containing the requested name) is never returned.
C4_FirstExactMatch ==
    pc = "found" =>
        /\ Falsy(appId) <=> Named(remote, name) = {}
        /\ Named(remote, name) # {} =>
              appId = remote[Least(Named(remote, name))].id
        /\ \A i \in 1..Len(remote) :
              remote[i].id = appId => remote[i].name = name

\* the first match comes after an item whose name differs only in case, and
\* is followed by a second item of the same name
C4_Witness ==
    /\ pc = "found"
    /\ Len(remote) >= 3
    /\ name = "Test"
    /\ remote[1].name = "test"
    /\ remote[2].name = "Test"
    /\ remote[3].name = "Test"
    /\ appId = remote[2].id

\* nothing matches although one name contains the requested one and another
\* differs from it only in case
C4_WitnessAbsent ==
    /\ pc = "found"
    /\ name = "Test"
    /\ Len(remote) >= 2
    /\ remote[1].name = "Testing"
    /\ remote[2].name = "test"
    /\ Falsy(appId)

----------------------------------------------------------------------------
(* Properties of trainApplicationVersionAndWaitForCompletion *)

Immediate(st) == initialStatus = <<st>>

ReturnedAfterPolling == pc = "returned" /\ Immediate(TrainingStatus.Queued)

\* C5: an immediate UpToDate makes the poller return {success: true,
\* statusId: UpToDate} at once, with no status-poll call and no delay.
C5_ImmediateUpToDate ==
    Immediate(TrainingStatus.UpToDate) =>
        /\ pc = "returned"
        /\ result = [success |-> TRUE, statusId |-> TrainingStatus.UpToDate,
                     status |-> <<>>]
        /\ polls = 0
        /\ delays = <<>>
        /\ responses = <<>>

C5_Witness ==
    /\ pc = "returned"
    /\ Immediate(TrainingStatus.UpToDate)
    /\ trains = 1
    /\ result.success

\* The result the claims expect for the status list the loop exits with.
ExpectedResult(list) ==
    IF \E i \in 1..Len(list) : list[i] = TrainingStatus.Fail
      THEN [success |-> FALSE, statusId |-> TrainingStatus.Fail, status |-> <<list>>]
    ELSE IF \A i \in 1..Len(list) : list[i] = TrainingStatus.UpToDate
      THEN [success |-> TRUE, statusId |-> TrainingStatus.UpToDate, status |-> <<>>]
    ELSE [success |-> TRUE, statusId |-> TrainingStatus.Success, status |-> <<>>]

\* C6: after an immediate Queued the poller polls up to and including the
\* first response without an InProgress entry and not beyond it: when it
\* returns, exactly k polls were made, the first k-1 responses contained
\* InProgress, the k-th did not, and the result is classified from the k-th;
\* while it is still polling every response so far contained InProgress.
C6_PollsUntilFirstSettledResponse ==
    /\ polls <= Len(responses) + 1
    /\ pc \in {"delay", "delaying", "awaitStatus"} =>
          /\ Immediate(TrainingStatus.Queued)
          /\ \A i \in 1..Len(responses) : responses[i]
    /\ ReturnedAfterPolling =>
          /\ polls = Len(responses)
          /\ polls >= 1
          /\ \A i \in 1..(polls - 1) : responses[i]
          /\ ~ responses[polls]
          /\ result = ExpectedResult(lastResponse)

\* first response with InProgress, second with Fail entries only: failure
\* after exactly two polls
C6_Witness ==
    /\ ReturnedAfterPolling
    /\ responses = <<TRUE, FALSE>>
    /\ lastResponse = <<TrainingStatus.Fail, TrainingStatus.Fail>>
    /\ polls = 2
    /\ result = [success |-> FALSE, statusId |-> TrainingStatus.Fail,
                 status |-> <<lastResponse>>]

\* C7: if the last fetched status list has a Fail entry, the result is
\* {success: false, statusId: Fail} with that list attached, whatever the
\* other entries are.
C7_AnyFailIsFailure ==
    (ReturnedAfterPolling /\
       \E i \in 1..Len(lastResponse) : lastResponse[i] = TrainingStatus.Fail) =>
        /\ ~ result.success
        /\ result.statusId = TrainingStatus.Fail
        /\ result.status = <<lastResponse>>

\* Fail next to an UpToDate entry
C7_Witness ==
    /\ ReturnedAfterPolling
    /\ lastResponse = <<TrainingStatus.UpToDate, TrainingStatus.Fail>>
    /\ ~ result.success
    /\ result.status = <<lastResponse>>

\* C8: if the last fetched status list has no Fail entry and all its entries
\* are UpToDate (the empty list included), the result is {success: true,
\* statusId: UpToDate} without a payload.
C8_AllUpToDate ==
    (ReturnedAfterPolling /\
       \A i \in 1..Len(lastResponse) : lastResponse[i] = TrainingStatus.UpToDate) =>
        /\ result.success
        /\ result.statusId = TrainingStatus.UpToDate
        /\ result.status = <<>>

\* the empty status list
C8_Witness ==
    /\ ReturnedAfterPolling
    /\ lastResponse = <<>>
    /\ polls >= 2
    /\ result.success
    /\ result.statusId = TrainingStatus.UpToDate

\* all entries UpToDate, at least one
C8_WitnessNonEmpty ==
    /\ ReturnedAfterPolling
    /\ lastResponse = <<TrainingStatus.UpToDate, TrainingStatus.UpToDate>>
    /\ result.statusId = TrainingStatus.UpToDate

\* C9: if the last fetched status list has no Fail and no InProgress entry
\* and some entry that is not UpToDate, the result is {success: true,
\* statusId: Success} without a payload.
C9_MixIsSuccess ==
    (/\ ReturnedAfterPolling
     /\ \A i \in 1..Len(lastResponse) :
           lastResponse[i] \notin {TrainingStatus.Fail, TrainingStatus.InProgress}
     /\ \E i \in 1..Len(lastResponse) :
           lastResponse[i] # TrainingStatus.UpToDate) =>
        /\ result.success
        /\ result.statusId = TrainingStatus.Success
        /\ result.status = <<>>

\* a mix of Success and UpToDate
C9_Witness ==
    /\ ReturnedAfterPolling
    /\ lastResponse = <<TrainingStatus.Success, TrainingStatus.UpToDate>>
    /\ result.success
    /\ result.statusId = TrainingStatus.Success

\* C10: any immediate status but UpToDate and Queued makes the poller return
\* {success: false, statusId: Fail} without a status-poll call.
C10_OtherImmediateIsFailure ==
    (initialStatus # <<>> /\
       initialStatus[1] \notin {TrainingStatus.UpToDate, TrainingStatus.Queued}) =>
        /\ pc = "returned"
        /\ result = [success |-> FALSE, statusId |-> TrainingStatus.Fail,
                     status |-> <<>>]
        /\ polls = 0
        /\ delays = <<>>

\* an immediate Success is reported as a failure
C10_Witness ==
    /\ pc = "returned"
    /\ Immediate(TrainingStatus.Success)
    /\ ~ result.success
    /\ result.statusId = TrainingStatus.Fail

----------------------------------------------------------------------------
(* Termination and timing of the polling loop *)

PollCall(e) == e.ev = "call" /\ e.op = "getVersionTrainingStatus"

\* Did the response that has just arrived contain an InProgress entry?
LatestResponseInProgress == responses' # responses /\ responses'[Len(responses')]

\* C13: after an immediate Queued the poller returns if and only if a poll
\* response without an InProgress entry arrives: it returns only on such a
\* response, every response with an InProgress entry sends it into a further
\* iteration (no timeout, no attempt bound), and once the service settles it
\* does return; the training-start call is issued once and never again.
C13_ReturnsIffSettled ==
    /\ [](trains <= 1 /\ (pc # "train" => trains = 1))
    /\ [][(pc = "awaitStatus" /\ pc' = "returned") =>
             (responses' # responses /\ ~ responses'[Len(responses')])]_vars
    /\ [][(pc = "awaitStatus" /\ LatestResponseInProgress) =>
             (pc' = "delay" /\ trains' = trains)]_vars
    /\ [][(pc \in {"delay", "delaying", "awaitStatus"}) =>
             (pc' \in {"delay", "delaying", "awaitStatus", "returned"})]_vars
    /\ (Immediate(TrainingStatus.Queued) ~> pc = "returned")

\* the loop ran for as long as the service reported a model in progress
C13_Witness ==
    /\ ReturnedAfterPolling
    /\ responses = <<TRUE, TRUE, FALSE>>
    /\ polls = 3
    /\ trains = 1

\* C14: success after polling means that training has completed for every
\* model: every entry of the last status list is Success or UpToDate.
C14_SuccessMeansAllTrained ==
    (ReturnedAfterPolling /\ result.success) =>
        \A i \in 1..Len(lastResponse) :
            lastResponse[i] \in {TrainingStatus.Success, TrainingStatus.UpToDate}

\* C18: every status poll is issued right after one delay of 500 ms, which
\* was started right after a response arrived and while no request was
\* pending; nothing but that poll follows a delay, so consecutive polls are
\* one delay apart and there are as many delays as polls.
C18_OneFixedDelayBeforeEachPoll ==
    /\ \A i \in 1..Len(trace) :
          PollCall(trace[i]) =>
            /\ i >= 3
            /\ trace[i - 1] = Ev("delay", "delay", DelayMs)
            /\ trace[i - 2].ev = "return"
    /\ \A i \in 1..Len(trace) :
          trace[i].ev = "delay" =>
            /\ trace[i].arg = DelayMs
            /\ i >= 2 /\ trace[i - 1].ev = "return"
            /\ i < Len(trace) => PollCall(trace[i + 1])
    /\ \A i \in 1..Len(delays) : delays[i] = DelayMs
    /\ Len(delays) = polls + (IF pc = "delaying" THEN 1 ELSE 0)
    /\ pc = "delaying" => inflight = 0
    /\ polls >= 1 => Immediate(TrainingStatus.Queued)

\* three polls, three delays
C18_Witness ==
    /\ ReturnedAfterPolling
    /\ polls = 3
    /\ delays = <<DelayMs, DelayMs, DelayMs>>

----------------------------------------------------------------------------
(* Termination of getAllPages *)

\* C15: getAllPages returns on the first page shorter than the page size (an
\* empty one included) and on no other: after every page of exactly page-size
\* items it goes on to issue a further request (so it cannot return while
\* the pages stay full), and against a remote that comes to a short page it
\* terminates.
C15_StopsAtFirstShortPage ==
    /\ [][(pc = "awaitPage" /\ pc' # pc) =>
             /\ pc' \in {"fetch", "scanned"}
             /\ pc' = "scanned" <=> Len(page') < take
             /\ pc' = "fetch" <=> Len(page') = take]_vars
    /\ [][(pc = "fetch" /\ pc' # pc) =>
             (pc' = "awaitPage" /\ fetches' = fetches + 1)]_vars
    /\ (pc = "fetch" ~> pc = "awaitPage")
    /\ (pc \in {"fetch", "awaitPage"} ~> pc = "scanned")

\* two full pages, then a short page that is not empty
C15_Witness ==
    /\ pc = "scanned"
    /\ fetches = 3
    /\ Len(results) = 2 * take + Len(page)
    /\ Len(page) >= 1
    /\ Len(page) < take

----------------------------------------------------------------------------
(* Properties of the whole run *)

\* Positions of the events of the run that satisfy P.
Events(P(_)) == { i \in 1..Len(trace) : P(trace[i]) }

IsCall(e) == e.ev = "call"

IsThrow(e) == e.ev = "throw"

Failed == Events(IsThrow) # {}

\* C11: at most one remote request is in flight at any time: a request is
\* pending exactly while main awaits a response, each request is issued after
\* the previous one was answered, and none is pending during a polling delay.
C11_OneRequestInFlight ==
    /\ inflight \in {0, 1}
    /\ inflight = 1 <=> pc \in AwaitPcs
    /\ pc = "delaying" => inflight = 0
    /\ \A i \in Events(IsCall) :
          i > 1 => trace[i - 1].ev \in {"return", "found", "delay"}
    /\ Len(trace) >= 1 /\ IsCall(trace[Len(trace)]) <=> inflight = 1

\* a poll is pending after a delay, late in a run
C11_Witness ==
    /\ pc = "awaitStatus"
    /\ inflight = 1
    /\ polls = 2
    /\ Len(trace) >= 2 /\ trace[Len(trace) - 1].ev = "delay"

\* C12: when a remote call fails, the one handler logs the error and the
\* completion message follows; the failure is the last event of the run (no
\* retry, no rollback, no delete of the application) and the run is over.
C12_FailureEndsTheRun ==
    /\ Failed <=> \E i \in 1..Len(console) : console[i] = "error"
    /\ Failed =>
          /\ pc = "done"
          /\ inflight = 0
          /\ Events(IsThrow) = {Len(trace)}
          /\ IsCall(trace[Len(trace) - 1])
          /\ trace[Len(trace) - 1].op = trace[Len(trace)].op
          /\ Len(console) >= 2
          /\ console[Len(console) - 1] = "error"
    /\ pc = "done" =>
          /\ console # <<>>
          /\ console[Len(console)] = "We are done!"
          /\ \A i \in 1..(Len(console) - 1) : console[i] # "We are done!"
    /\ pc # "done" => \A i \in 1..Len(console) : console[i] # "We are done!"

\* the application was created, a later call failed, and it was not deleted
C12_Witness ==
    /\ pc = "done"
    /\ Failed
    /\ \E i \in Events(IsCall) : trace[i].op = "addApplication"
    /\ trace[Len(trace)].op = "trainApplicationVersion"
    /\ \A i \in Events(IsCall) : trace[i].op # "deleteApplication"

\* Positions of the finds and of the creation calls of kind k.
Finds(k) == { i \in 1..Len(trace) :
                trace[i].ev = "found" /\ trace[i].op = FindOps[k] }

Creations(k) == { i \in 1..Len(trace) :
                    trace[i].ev = "call" /\ trace[i].op = CreateOps[k] }

\* C16: for every resource kind the creation call is issued exactly when the
\* find just before it returned no identifier, and at most once in a run;
\* when the find returns an identifier no creation call is made for that
\* kind and the identifier is the one main goes on with.
C16_CreateIffFindAbsent ==
    \A k \in Kinds :
        LET finds     == Finds(k)
            creations == Creations(k)
        IN  /\ Cardinality(creations) <= 1
            /\ Cardinality(finds) <= 1
            /\ \A c \in creations :
                  c - 1 \in finds /\ trace[c - 1].arg = Undefined
            /\ \A f \in finds :
                  IF trace[f].arg = Undefined
                    THEN /\ f < Len(trace) => f + 1 \in creations
                         /\ f = Len(trace) => pc \in {"found", "add"}
                    ELSE /\ creations = {}
                         /\ k = 1 => \A i \in (f + 1)..Len(trace) :
                                         trace[i].arg = trace[f].arg
                                           \/ trace[i].ev \notin {"call", "return"}
                         /\ (k > 1 /\ kind = k /\ pc \in {"found", "resolved"}) =>
                               modelId = trace[f].arg

\* a run to its end in which some kinds were found and others created
C16_Witness ==
    /\ pc = "done"
    /\ ~ Failed
    /\ Creations(1) = {}
    /\ Creations(2) # {}
    /\ Creations(3) = {}
    /\ Creations(6) # {}
    /\ \A k \in Kinds : Finds(k) # {}

\* The step of the run an event belongs to: 1 find or create the resources,
\* 2 add utterances, 3 list what exists, 4 train, 5 publish, 6 review,
\* 7 delete.
Phase(op) ==
    IF op = "batchAddLabels" THEN 2
    ELSE IF op \in {"trainApplicationVersion", "getVersionTrainingStatus",
                    "delay"} THEN 4
    ELSE IF op = "publishApplication" THEN 5
    ELSE IF op = "reviewLabeledExamples" THEN 6
    ELSE IF op = "deleteApplication" THEN 7
    ELSE IF \E k \in Kinds : op = ListOps[k] THEN 3
    ELSE 1

CallsOf(op) == { i \in 1..Len(trace) : trace[i].ev = "call" /\ trace[i].op = op }

\* C17: the remote calls of a run come in the order find-or-create, add
\* utterances, train, publish, review, delete; publish is called exactly when
\* the poller has returned success = true, and review and delete are called
\* after training whether it succeeded or not.
C17_StepOrder ==
    LET labels  == CallsOf("batchAddLabels")
        train   == CallsOf("trainApplicationVersion")
        publish == CallsOf("publishApplication")
        review  == CallsOf("reviewLabeledExamples")
        delete  == CallsOf("deleteApplication")
    IN  /\ \A i \in 1..(Len(trace) - 1) :
              Phase(trace[i].op) <= Phase(trace[i + 1].op)
        /\ \A calls \in {labels, train, publish, review, delete} :
              Cardinality(calls) <= 1
        /\ publish # {} => result.success
        /\ (publish \cup review \cup delete) # {} =>
              /\ initialStatus # <<>>
              /\ pc \notin {"train", "awaitTrain", "delay", "delaying",
                             "awaitStatus", "returned"}
        /\ pc \in {"review", "awaitReview", "delete", "awaitDelete"} =>
              (publish # {} <=> result.success)
        /\ (pc = "done" /\ ~ Failed) =>
              /\ publish # {} <=> result.success
              /\ \A calls \in {labels, train, review, delete} :
                    Cardinality(calls) = 1

\* training failed after polling, and the run still reviewed and deleted
C17_Witness ==
    /\ pc = "done"
    /\ ~ Failed
    /\ ~ result.success
    /\ polls >= 1
    /\ CallsOf("publishApplication") = {}
    /\ CallsOf("reviewLabeledExamples") # {}
    /\ CallsOf("deleteApplication") # {}

\* training succeeded and the application was published before the review
C17_WitnessPublished ==
    /\ pc = "done"
    /\ ~ Failed
    /\ result.success
    /\ \E i \in CallsOf("publishApplication") :
          \E j \in CallsOf("reviewLabeledExamples") : i < j

====
